---- MODULE Spec2Model ----
(***************************************************************************)
(* The customer-data preparation cells of intro-to-pixie-dust.ipynb:       *)
(* getNumericVal and deriveGender, the two Python functions that cleanse   *)
(* the AGE column and derive GENDER from the salutation in GenderCode, and *)
(* the notebook cells that apply them to customer_df as Spark UDFs.        *)
(*                                                                         *)
(* A Python str is a sequence of one-character strings; a Python value is  *)
(* a tagged record, and so is the outcome of a call (a returned value or a *)
(* raised exception).                                                      *)
(***************************************************************************)
EXTENDS Integers, Sequences, FiniteSets

\* Longest free part of a generated input string.
MaxLen == 3

(***************************************************************************)
(* Python values and call outcomes                                         *)
(***************************************************************************)
PyStr(s) == [tag |-> "str", s |-> s]
PyInt(n) == [tag |-> "int", n |-> n]
PyNone == [tag |-> "None"]
Raised(e) == [tag |-> "raise", exc |-> e]

\* the string literals of deriveGender
MrTok == <<"M", "r", ".">>
MasterTok == <<"M", "a", "s", "t", "e", "r", ".">>
MrsTok == <<"M", "r", "s", ".">>
MissTok == <<"M", "i", "s", "s", ".">>
MaleTok == <<"m", "a", "l", "e">>
FemaleTok == <<"f", "e", "m", "a", "l", "e">>
UnknownTok == <<"u", "n", "k", "n", "o", "w", "n">>

(***************************************************************************)
(* int(col): Python's integer constructor on the values the UDF can see.   *)
(* For a str: surrounding whitespace is stripped, one sign is accepted,    *)
(* and the rest is decimal digits with single underscores between digits;  *)
(* anything else raises ValueError.  For None it raises TypeError.         *)
(***************************************************************************)
IsSpace(c) == c \in {" ", "\n", "\t", "\r"}

IsDigit(c) == c \in {"0", "1", "2", "3", "4", "5", "6", "7", "8", "9"}

DigitVal(c) ==
  CASE c = "0" -> 0 [] c = "1" -> 1 [] c = "2" -> 2 [] c = "3" -> 3
    [] c = "4" -> 4 [] c = "5" -> 5 [] c = "6" -> 6 [] c = "7" -> 7
    [] c = "8" -> 8 [] c = "9" -> 9

RECURSIVE LStrip(_)
LStrip(s) == IF s # <<>> /\ IsSpace(Head(s)) THEN LStrip(Tail(s)) ELSE s

RECURSIVE RStrip(_)
RStrip(s) ==
  IF s # <<>> /\ IsSpace(s[Len(s)]) THEN RStrip(SubSeq(s, 1, Len(s) - 1)) ELSE s

Strip(s) == LStrip(RStrip(s))

RECURSIVE DecValue(_)
DecValue(ds) ==
  IF ds = <<>> THEN 0
  ELSE 10 * DecValue(SubSeq(ds, 1, Len(ds) - 1)) + DigitVal(ds[Len(ds)])

\* digits, with single underscores allowed between two digits
IsDigitBody(b) ==
  /\ b # <<>>
  /\ IsDigit(b[1])
  /\ IsDigit(b[Len(b)])
  /\ \A i \in 1..Len(b) : IsDigit(b[i]) \/ b[i] = "_"
  /\ \A i \in 1..(Len(b) - 1) : ~(b[i] = "_" /\ b[i + 1] = "_")

PyIntOfStr(s) ==
  LET t == Strip(s)
      signed == t # <<>> /\ Head(t) \in {"-", "+"}
      body == IF signed THEN Tail(t) ELSE t
      mag == DecValue(SelectSeq(body, IsDigit))
  IN IF IsDigitBody(body)
       THEN PyInt(IF signed /\ Head(t) = "-" THEN 0 - mag ELSE mag)
       ELSE Raised("ValueError")

PyIntOf(col) ==
  CASE col.tag = "int" -> col
    [] col.tag = "str" -> PyIntOfStr(col.s)
    [] OTHER -> Raised("TypeError")

(***************************************************************************)
(* re.match('^age\-(\d+)$', col): the literal prefix "age-", one or more   *)
(* digits, and the end of the string, which `$` also finds just before a   *)
(* final newline.  The result is group(1), or NoMatch.                     *)
(***************************************************************************)
AgePrefix == <<"a", "g", "e", "-">>

NoMatch == [matched |-> FALSE]

IsDigits(s) == s # <<>> /\ \A i \in 1..Len(s) : IsDigit(s[i])

Lower(c) == CASE c = "A" -> "a" [] c = "G" -> "g" [] c = "E" -> "e" [] OTHER -> c

\* ReMatchAge compiled with re.IGNORECASE
ReMatchAgeIgnoreCase(s) ==
  LET n == Len(s)
      rest == SubSeq(s, 5, n)
      core == IF rest # <<>> /\ rest[Len(rest)] = "\n"
                THEN SubSeq(rest, 1, Len(rest) - 1) ELSE rest
  IN IF n >= 5 /\ [i \in 1..4 |-> Lower(s[i])] = AgePrefix
       THEN IF IsDigits(rest) THEN [matched |-> TRUE, group1 |-> rest]
            ELSE IF IsDigits(core) THEN [matched |-> TRUE, group1 |-> core]
            ELSE NoMatch
       ELSE NoMatch

ReMatchAge(s) ==
  LET n == Len(s)
      rest == SubSeq(s, 5, n)
      core == IF rest # <<>> /\ rest[Len(rest)] = "\n"
                THEN SubSeq(rest, 1, Len(rest) - 1) ELSE rest
  IN IF n >= 5 /\ SubSeq(s, 1, 4) = AgePrefix
       THEN IF IsDigits(rest) THEN [matched |-> TRUE, group1 |-> rest]
            ELSE IF IsDigits(core) THEN [matched |-> TRUE, group1 |-> core]
            ELSE NoMatch
       ELSE NoMatch

(***************************************************************************)
(* getNumericVal(col)                                                      *)
(***************************************************************************)
\* getNumericVal without its try/except
getNumericValNoExcept(col) == PyIntOf(col)

\* getNumericVal guarding the direct parse with col.isdigit()
getNumericValDigitsOnly(col) ==
  IF col.tag = "str" /\ IsDigits(col.s) THEN PyIntOf(col)
  ELSE IF col.tag = "str"
    THEN LET match == ReMatchAge(col.s)
         IN IF match.matched THEN PyIntOf(PyStr(match.group1)) ELSE PyNone
  ELSE PyIntOf(col)

\* getNumericVal falling back to 0 instead of None
getNumericValDefaultZero(col) ==
  LET direct == PyIntOf(col)
  IN IF direct = Raised("ValueError")
       THEN LET match == ReMatchAge(col.s)
            IN IF match.matched THEN PyIntOf(PyStr(match.group1)) ELSE PyInt(0)
       ELSE direct

\* getNumericVal handing an unparseable col back unchanged
getNumericValKeepRaw(col) ==
  LET direct == PyIntOf(col)
  IN IF direct = Raised("ValueError")
       THEN LET match == ReMatchAge(col.s)
            IN IF match.matched THEN PyIntOf(PyStr(match.group1)) ELSE col
       ELSE direct

getNumericVal(col) ==
  LET direct == PyIntOf(col)
  IN IF direct = Raised("ValueError")
       THEN LET match == ReMatchAge(col.s)
            IN IF match.matched
                 THEN LET inner == PyIntOf(PyStr(match.group1))
                      IN IF inner = Raised("ValueError") THEN PyNone ELSE inner
                 ELSE PyNone
       ELSE direct

(***************************************************************************)
(* deriveGender(col)                                                       *)
(***************************************************************************)
\* deriveGender comparing col.strip()
deriveGenderStripped(col) ==
  LET key == IF col.tag = "str" THEN PyStr(Strip(col.s)) ELSE col
  IN IF key \in {PyStr(MrTok), PyStr(MasterTok)} THEN PyStr(MaleTok)
     ELSE IF key \in {PyStr(MrsTok), PyStr(MissTok)} THEN PyStr(FemaleTok)
     ELSE PyStr(UnknownTok)

\* deriveGender handing an already derived 'male' or 'female' back
deriveGenderKeepsDerived(col) ==
  IF col \in {PyStr(MrTok), PyStr(MasterTok), PyStr(MaleTok)} THEN PyStr(MaleTok)
  ELSE IF col \in {PyStr(MrsTok), PyStr(MissTok), PyStr(FemaleTok)} THEN PyStr(FemaleTok)
  ELSE PyStr(UnknownTok)

deriveGender(col) ==
  IF col \in {PyStr(MrTok), PyStr(MasterTok)} THEN PyStr(MaleTok)
  ELSE IF col \in {PyStr(MrsTok), PyStr(MissTok)} THEN PyStr(FemaleTok)
  ELSE PyStr(UnknownTok)

(***************************************************************************)
(* Input strings: a fixed stem followed by every string of at most MaxLen  *)
(* characters of an alphabet.                                              *)
(***************************************************************************)
StringsUpTo(A, n) == UNION {[1..k -> A] : k \in 0..n}

AgeAlphabet == {"3", "5", "0", "-", "+", "_", " ", "\n", "x"}

AgeStems ==
  {<<>>, AgePrefix, <<"A", "g", "e", "-">>, <<"A", "G", "E", "-">>,
   <<"x", "a", "g", "e", "-">>, <<"a", "g", "e">>}

SalAlphabet == {".", " ", "s", "r"}

SalStems ==
  {<<>>, <<"M">>, <<"M", "r">>, <<"M", "i", "s">>, <<"M", "a", "s", "t", "e", "r">>,
   <<"m", "r">>, <<"M", "R">>, <<"D", "r">>, <<"m">>,
   MaleTok, FemaleTok, UnknownTok}

AgeStrings == {p \o s : p \in AgeStems, s \in StringsUpTo(AgeAlphabet, MaxLen)}

SalStrings == {p \o s : p \in SalStems, s \in StringsUpTo(SalAlphabet, MaxLen)}

InputStrings == AgeStrings \cup SalStrings

FnInputs == {PyStr(s) : s \in InputStrings} \cup {PyNone}

(***************************************************************************)
(* The notebook's data: rows are records keyed by column name.  CUST_ID    *)
(* stands for the columns the cells select and never touch; ORDER_ID for   *)
(* the columns of raw_df that the select leaves out.                       *)
(***************************************************************************)
\* Most rows in raw_df.
MaxRows == 2

\* Most withColumn steps stacked on customer_df before it is selected anew.
MaxOps == 2

SelectedCols == {"CUST_ID", "AGE", "GenderCode"}

RawAges ==
  {PyStr(<<"3", "5">>), PyStr(<<"a", "g", "e", "-", "3", "5">>),
   PyStr(<<"-", "5">>), PyStr(<<"x">>), PyNone}

RawSalutations == {PyStr(MrTok), PyStr(<<"D", "r", ".">>)}

RawCustIds == {PyInt(1), PyInt(2)}

RawRowChoices == [CUST_ID : RawCustIds, AGE : RawAges, GenderCode : RawSalutations]

RawRow(r, i) ==
  [c \in SelectedCols \cup {"ORDER_ID"} |-> IF c = "ORDER_ID" THEN PyInt(i) ELSE r[c]]

RawFrames ==
  UNION {{[i \in 1..n |-> RawRow(f[i], i)] : f \in [1..n -> RawRowChoices]} :
           n \in 1..MaxRows}

\* raw_df.select(...)
Select(rows) == [i \in 1..Len(rows) |-> [c \in SelectedCols |-> rows[i][c]]]

\* .dropDuplicates(): one row of each group of rows equal in every column
RECURSIVE DropDuplicates(_)
DropDuplicates(rows) ==
  IF rows = <<>> THEN <<>>
  ELSE LET init == DropDuplicates(SubSeq(rows, 1, Len(rows) - 1))
           last == rows[Len(rows)]
       IN IF \E i \in 1..Len(init) : init[i] = last THEN init ELSE Append(init, last)

\* df.withColumn(name, value) on one row
WithColumn(row, name, v) ==
  [c \in DOMAIN row \cup {name} |-> IF c = name THEN v ELSE row[c]]

\* func.udf(lambda c: getNumericVal(c), types.IntegerType()); the ages of the
\* model are far inside the range of IntegerType
toNumericValUDF(c) == getNumericVal(c)

\* func.udf(lambda c: deriveGender(c), types.StringType())
deriveGenderUDF(c) == deriveGender(c)

Evaluated(row) == [ok |-> TRUE, row |-> row]

TaskFailed(e) == [ok |-> FALSE, exc |-> e]

\* one withColumn step of the plan on one row; an exception in the UDF fails the task
ApplyOp(row, op) ==
  IF op = "AGE"
    THEN LET v == toNumericValUDF(row["AGE"])
         IN IF v.tag = "raise" THEN TaskFailed(v.exc)
            ELSE Evaluated(WithColumn(row, "AGE", v))
    ELSE Evaluated(WithColumn(row, "GENDER", deriveGenderUDF(row["GenderCode"])))

RECURSIVE EvalOps(_, _)
EvalOps(row, ops) ==
  IF ops = <<>> THEN Evaluated(row)
  ELSE LET before == EvalOps(row, SubSeq(ops, 1, Len(ops) - 1))
       IN IF before.ok THEN ApplyOp(before.row, ops[Len(ops)]) ELSE before

\* the columns of customer_df
Columns(df) ==
  SelectedCols \cup {"GENDER" : i \in {j \in 1..Len(df.ops) : df.ops[j] = "GENDER"}}

VARIABLES raw_df, customer_df, job, arg, fn, ret

vars == <<raw_df, customer_df, job, arg, fn, ret>>

nbvars == <<raw_df, customer_df, job>>

fvars == <<arg, fn, ret>>

NotCalled == [tag |-> "pending"]

Undefined == [defined |-> FALSE, base |-> <<>>, ops |-> <<>>]

NoRow == [none |-> TRUE]

Idle == [status |-> "idle", out |-> <<>>, exc |-> ""]

Pending(j) == {i \in 1..Len(j.out) : j.out[i] = NoRow}

(***************************************************************************)
(* The notebook: raw_df is loaded, and the cells run one at a time.        *)
(* withColumn only extends the plan of customer_df; show and display run   *)
(* a Spark job that evaluates the plan row by row, in any order.           *)
(***************************************************************************)
Init ==
  /\ raw_df \in RawFrames
  /\ customer_df = Undefined
  /\ job = Idle
  /\ arg = PyNone
  /\ fn = "none"
  /\ ret = NotCalled

\* customer_df = raw_df.select(...).dropDuplicates()
CellSelect ==
  /\ job.status # "running"
  /\ customer_df' = [defined |-> TRUE, base |-> DropDuplicates(Select(raw_df)),
                     ops |-> <<>>]
  /\ job' = Idle
  /\ UNCHANGED <<raw_df, fvars>>

\* customer_df = customer_df.withColumn("AGE", toNumericValUDF(customer_df["AGE"]))
CellCleanseAge ==
  /\ job.status # "running"
  /\ customer_df.defined
  /\ Len(customer_df.ops) < MaxOps
  /\ customer_df' = [customer_df EXCEPT !.ops = Append(@, "AGE")]
  /\ job' = Idle
  /\ UNCHANGED <<raw_df, fvars>>

\* customer_df = customer_df.withColumn("GENDER", deriveGenderUDF(customer_df["GenderCode"]))
CellDeriveGender ==
  /\ job.status # "running"
  /\ customer_df.defined
  /\ Len(customer_df.ops) < MaxOps
  /\ customer_df' = [customer_df EXCEPT !.ops = Append(@, "GENDER")]
  /\ job' = Idle
  /\ UNCHANGED <<raw_df, fvars>>

StartJob(n) == [status |-> "running", out |-> [i \in 1..n |-> NoRow], exc |-> ""]

ShowRows == 5

Min(a, b) == IF a < b THEN a ELSE b

\* customer_df.show(5)
CellShow ==
  /\ job.status # "running"
  /\ customer_df.defined
  /\ job' = StartJob(Min(ShowRows, Len(customer_df.base)))
  /\ UNCHANGED <<raw_df, customer_df, fvars>>

\* display(customer_df)
CellDisplay ==
  /\ job.status # "running"
  /\ customer_df.defined
  /\ job' = StartJob(Len(customer_df.base))
  /\ UNCHANGED <<raw_df, customer_df, fvars>>

\* one task of the running job evaluates one row; a task that raises fails the job
RunTask(i) ==
  /\ job.status = "running"
  /\ i \in Pending(job)
  /\ LET res == EvalOps(customer_df.base[i], customer_df.ops)
     IN IF res.ok
          THEN job' = [job EXCEPT !.out[i] = res.row,
                                  !.status = IF Pending(job) = {i} THEN "done"
                                             ELSE "running"]
          ELSE job' = [status |-> "failed", out |-> <<>>, exc |-> res.exc]
  /\ UNCHANGED <<raw_df, customer_df, fvars>>

Next ==
  \/ CellSelect
  \/ CellCleanseAge
  \/ CellDeriveGender
  \/ CellShow
  \/ CellDisplay
  \/ \E i \in 1..MaxRows : RunTask(i)

Spec == Init /\ [][Next]_vars

(***************************************************************************)
(* The two functions on their own: one call on one input.                  *)
(***************************************************************************)
FnInit ==
  /\ arg \in FnInputs
  /\ fn = "none"
  /\ ret = NotCalled
  /\ raw_df = <<>>
  /\ customer_df = Undefined
  /\ job = Idle

CallGetNumericVal ==
  /\ fn = "none"
  /\ fn' = "getNumericVal"
  /\ ret' = getNumericVal(arg)
  /\ UNCHANGED <<arg, nbvars>>

CallDeriveGender ==
  /\ fn = "none"
  /\ fn' = "deriveGender"
  /\ ret' = deriveGender(arg)
  /\ UNCHANGED <<arg, nbvars>>

\* getNumericVal applied to the value it returned, as the age cell run a
\* second time applies it to the AGE it has already cleansed
CallGetNumericValAgain ==
  /\ fn = "getNumericVal"
  /\ ret.tag # "raise"
  /\ fn' = "getNumericValAgain"
  /\ ret' = getNumericVal(ret)
  /\ UNCHANGED <<arg, nbvars>>

\* deriveGender applied to the token it returned
CallDeriveGenderAgain ==
  /\ fn = "deriveGender"
  /\ ret.tag # "raise"
  /\ fn' = "deriveGenderAgain"
  /\ ret' = deriveGender(ret)
  /\ UNCHANGED <<arg, nbvars>>

FnNext ==
  \/ CallGetNumericVal
  \/ CallDeriveGender
  \/ CallGetNumericValAgain
  \/ CallDeriveGenderAgain

SpecFn == FnInit /\ [][FnNext]_vars

(***************************************************************************)
(* Properties                                                              *)
(***************************************************************************)
Called(f) == fn = f

OfStr == arg.tag = "str"

GenderTokens == {PyStr(MaleTok), PyStr(FemaleTok), PyStr(UnknownTok)}

\* C1: on every string input getNumericVal returns an integer or None and
\* deriveGender returns male, female or unknown; neither call raises.
Totality ==
  /\ Called("getNumericVal") /\ OfStr => ret.tag \in {"int", "None"}
  /\ Called("deriveGender") /\ OfStr => ret \in GenderTokens

TotalityWitness ==
  /\ Called("getNumericVal")
  /\ arg = PyStr(<<"x", "-", "3">>)
  /\ ret = PyNone

\* C2: on a null input getNumericVal returns None and deriveGender returns
\* unknown, as for an unparseable string, and neither raises.
NullLikeUnparseable ==
  arg = PyNone =>
    /\ Called("getNumericVal") => ret = PyNone
    /\ Called("deriveGender") => ret = PyStr(UnknownTok)

JobEnded == job.status \in {"done", "failed"}

AgeCleansed == \E k \in 1..Len(customer_df.ops) : customer_df.ops[k] = "AGE"

GenderDerived == \E k \in 1..Len(customer_df.ops) : customer_df.ops[k] = "GENDER"

OutRows == {i \in 1..Len(job.out) : job.out[i] # NoRow}

\* C3: in every normalized record AGE is a non-negative integer or the unknown
\* marker, never a negative number and never a malformed string.
AgeNonNegativeOrUnknown ==
  AgeCleansed =>
    \A i \in OutRows :
      LET age == job.out[i]["AGE"]
      IN age = PyNone \/ (age.tag = "int" /\ age.n >= 0)

\* C3, amended: in every normalized record AGE is an integer, which can be
\* negative (a raw token '-5' gives -5), or the unknown marker; it is never a
\* malformed string.
AgeIntegerOrUnknown ==
  AgeCleansed =>
    \A i \in OutRows :
      LET age == job.out[i]["AGE"]
      IN age = PyNone \/ age.tag = "int"

NegativeAgeNormalized ==
  /\ job.status = "done"
  /\ AgeCleansed
  /\ \E i \in OutRows :
       /\ customer_df.base[i]["AGE"] = PyStr(<<"-", "5">>)
       /\ job.out[i]["AGE"] = PyInt(0 - 5)

\* decimal digits, optionally preceded by '-'
IsIntLiteral(s) ==
  IsDigits(IF s # <<>> /\ Head(s) = "-" THEN Tail(s) ELSE s)

IntLiteralValue(s) ==
  IF Head(s) = "-" THEN 0 - DecValue(Tail(s)) ELSE DecValue(s)

\* C4: on a base-10 integer literal, digits optionally preceded by '-',
\* getNumericVal returns exactly that integer, negative for a leading '-'.
DirectIntegerParse ==
  Called("getNumericVal") /\ OfStr /\ IsIntLiteral(arg.s) =>
    ret = PyInt(IntLiteralValue(arg.s))

DirectIntegerParseWitness ==
  /\ Called("getNumericVal")
  /\ arg = PyStr(<<"-", "3", "5">>)
  /\ ret = PyInt(0 - 35)

HasStem(s, stem) ==
  /\ Len(s) > Len(stem)
  /\ SubSeq(s, 1, Len(stem)) = stem
  /\ IsDigits(SubSeq(s, Len(stem) + 1, Len(s)))

\* 'age-' followed by one or more digits and nothing else
IsAgePattern(s) == HasStem(s, AgePrefix)

\* C5: on 'age-' followed by digits and nothing else getNumericVal returns the
\* non-negative value of the digits; 'Age-' and 'AGE-' do not take this path.
AgePatternParse ==
  Called("getNumericVal") /\ OfStr =>
    /\ IsAgePattern(arg.s) =>
         ret = PyInt(DecValue(SubSeq(arg.s, 5, Len(arg.s)))) /\ ret.n >= 0
    /\ HasStem(arg.s, <<"A", "g", "e", "-">>) \/ HasStem(arg.s, <<"A", "G", "E", "-">>)
         => ret = PyNone

AgePatternParseWitness ==
  /\ Called("getNumericVal")
  /\ arg = PyStr(<<"a", "g", "e", "-", "3", "3">>)
  /\ ret = PyInt(33)

\* C6: on every string that is neither an integer literal nor exactly 'age-'
\* followed by digits, getNumericVal returns None; this covers ' 45', '45 ',
\* 'age-33 ' and 'age-33' followed by a newline.
MalformedAgeIsUnknown ==
  Called("getNumericVal") /\ OfStr /\ ~IsIntLiteral(arg.s) /\ ~IsAgePattern(arg.s) =>
    ret = PyNone

\* what int() takes: whitespace around an optional sign and digits that may be
\* grouped by single underscores
IsPaddedIntLiteral(s) ==
  LET t == Strip(s)
  IN IsDigitBody(IF t # <<>> /\ Head(t) \in {"-", "+"} THEN Tail(t) ELSE t)

\* 'age-' and digits, with at most one newline after them
IsAgePatternLine(s) ==
  \/ IsAgePattern(s)
  \/ s # <<>> /\ s[Len(s)] = "\n" /\ IsAgePattern(SubSeq(s, 1, Len(s) - 1))

\* C6, amended: getNumericVal returns None on every string that is neither an
\* integer literal as int() reads it (whitespace around it stripped, a sign of
\* '+' or '-', single underscores between digits) nor 'age-' followed by digits
\* and at most one final newline; on those it returns an integer, so ' 45',
\* '45 ' and 'age-33' followed by a newline are parsed, and 'age-33 ' is not.
MalformedAgeIsUnknownAmended ==
  Called("getNumericVal") /\ OfStr =>
    IF IsPaddedIntLiteral(arg.s) \/ IsAgePatternLine(arg.s)
      THEN ret.tag = "int"
      ELSE ret = PyNone

MalformedAgeWitness ==
  /\ Called("getNumericVal")
  /\ arg = PyStr(<<"a", "g", "e", "-", "3", " ">>)
  /\ ret = PyNone

\* C7: deriveGender returns male exactly on 'Mr.' and 'Master.', female exactly
\* on 'Mrs.' and 'Miss.', and unknown on every other input, variants in case,
\* punctuation or spacing included.
GenderExactLookup ==
  Called("deriveGender") =>
    /\ ret = PyStr(MaleTok) <=> OfStr /\ arg.s \in {MrTok, MasterTok}
    /\ ret = PyStr(FemaleTok) <=> OfStr /\ arg.s \in {MrsTok, MissTok}
    /\ ret = PyStr(UnknownTok) <=>
         ~(OfStr /\ arg.s \in {MrTok, MasterTok, MrsTok, MissTok})

GenderExactLookupWitness ==
  /\ Called("deriveGender")
  /\ arg = PyStr(<<"M", "r", ".", " ">>)
  /\ ret = PyStr(UnknownTok)

\* C8: whatever the order in which the rows are processed, each record gets the
\* AGE and GENDER that its own raw age and salutation determine; no record's
\* result is affected by another record.
RecordIndependence ==
  JobEnded =>
    \A i \in 1..Len(customer_df.base) :
      LET own == EvalOps(customer_df.base[i], customer_df.ops)
      IN own.ok => i \in OutRows /\ job.out[i] = own.row

\* C9: the normalization steps keep every record, none added or dropped,
\* replace only AGE, add only GENDER, and pass every other column through.
NormalizationFrame ==
  JobEnded =>
    /\ Len(job.out) = Len(customer_df.base)
    /\ \A i \in 1..Len(customer_df.base) :
         /\ i \in OutRows
         /\ DOMAIN job.out[i] \in {SelectedCols, SelectedCols \cup {"GENDER"}}
         /\ \A c \in SelectedCols \ {"AGE"} : job.out[i][c] = customer_df.base[i][c]

\* C10: after the gender step customer_df has a GENDER column and no longer
\* has a GenderCode column.
GenderCodeRenamed ==
  GenderDerived =>
    /\ "GENDER" \in Columns(customer_df)
    /\ "GenderCode" \notin Columns(customer_df)
    /\ \A i \in OutRows : "GenderCode" \notin DOMAIN job.out[i]

\* C11: deriveGender applied to one of its own output tokens, male, female or
\* unknown, does not fail and returns unknown; so deriveGender applied twice
\* to any salutation returns unknown.
GenderReapplied ==
  /\ Called("deriveGender") /\ arg \in GenderTokens => ret = PyStr(UnknownTok)
  /\ Called("deriveGenderAgain") => ret = PyStr(UnknownTok)

GenderReappliedWitness ==
  /\ Called("deriveGenderAgain")
  /\ arg = PyStr(MrsTok)
  /\ ret = PyStr(UnknownTok)

\* C12: after the select with dropDuplicates, the age cleansing and the gender
\* derivation, customer_df holds no two rows that are equal in every column.
NoDuplicateCustomers ==
  job.status = "done" /\ AgeCleansed /\ GenderDerived =>
    \A i, j \in OutRows : i # j => job.out[i] # job.out[j]

\* C13: getNumericVal applied to a value it has already returned, an integer or
\* None, returns that same value and does not raise, so cleansing AGE a second
\* time leaves a normalized record unchanged.
AgeReapplied ==
  Called("getNumericValAgain") => ret = getNumericVal(arg)
====
